---- MODULE Spec2Model ----
(***************************************************************************)
(* InfluencerSphere backend: the background scheduler (scheduler.py), the  *)
(* alert evaluation engine and the alert rule wrappers (alert_service.py), *)
(* the scoped store (firestore_service.py) and the search, called by the   *)
(* engine and through its route (influencer_service.py, search.py,         *)
(* recommendation_agent.py).                                               *)
(*                                                                         *)
(* Time is in seconds.  Floats of the source (rates, scores, thresholds)   *)
(* are modelled by integers; Python's None is the value None below, a      *)
(* missing string is "", and a text a search matches on is the sequence of *)
(* its characters.                                                         *)
(***************************************************************************)
EXTENDS Integers, Sequences, FiniteSets, TLC

\* ------------------------------------------------------------------ bounds
MaxTime == 915          \* the clock stops advancing here
MaxStarts == 2          \* start() creates at most this many loop threads
MaxVaried == 2          \* freely chosen profiles in the public pool
MaxFill == 25           \* identical top-scored filler profiles in the pool
MaxRules == 2           \* alert rules in the private collection
MaxDocs == 2            \* documents in a collection the store operations write
MaxPool == 2            \* profiles in the public pool a search runs over

\* ------------------------------------------------------- program constants
ALERT_CHECK_INTERVAL_SECONDS == 300
DEFAULT_SEARCH_LIMIT == 25
JoinTimeout == 5
InitialSlack == 60
None == -1
NotANumber == -2
DefaultPageSize == 20

VARIABLES
    now,                \* time.time()
    stop_event,         \* scheduler.py global: index into events, 0 = None
    scheduler_thread,   \* scheduler.py global: index into threads, 0 = None
    events,             \* the threading.Event objects created: TRUE = set
    threads,            \* the loop threads created: [pc, wakeAt, waitEv]
    callerPc,           \* the owning process: "idle", or "joining" in shutdown()
    joinUntil,          \* deadline of scheduler_thread.join(timeout=5)
    log,                \* the last line start()/shutdown() printed
    last_check_time,    \* AlertService._last_check_time
    publicPool,         \* public collection 'influencers', in store order
    userAlerts,         \* private collection 'user_alerts' of the service user
    scans,              \* call-count probe: one record per full scan
    lastCall,           \* what the last evaluate_all_alerts() execution did
    initial_auth_token, \* FirestoreService.initial_auth_token, "" = not set
    current_user_id,    \* FirestoreService.current_user_id, "" = None
    lastOp,             \* what the last store operation did
    lastSearch          \* what the last search did

schedVars == <<stop_event, scheduler_thread, events, threads, callerPc, joinUntil, log>>
evalVars == <<last_check_time, scans, lastCall>>
accessVars == <<initial_auth_token, current_user_id, lastOp>>
storeVars == <<publicPool, userAlerts, accessVars, lastSearch>>
vars == <<now, schedVars, evalVars, storeVars>>

\* ============================================================ scheduler.py

interval == ALERT_CHECK_INTERVAL_SECONDS

\* threading.Thread.is_alive() of the thread the global refers to
IsAlive(t) == t # 0 /\ threads[t].pc # "dead"

\* threading.Event.is_set() on the object the global refers to now
StopIsSet == stop_event # 0 /\ events[stop_event]

LiveThreads == {t \in DOMAIN threads : threads[t].pc # "dead"}

\* self.alert_service.evaluate_all_alerts() called without await: the async
\* function returns a coroutine object and none of its body runs.
CallEvaluateAllAlerts == "coroutine"

\* `if triggered_alerts:` followed by len(triggered_alerts): a coroutine
\* object is truthy and has no len(), which raises TypeError; a list is
\* measured only when non-empty.
IterationRaises(r) == r = "coroutine"

\* `except Exception as e:` of the loop body
ExceptClauseMutant(raised) == IF raised THEN "dead" ELSE "waiting"
ExceptClause(raised) == IF raised THEN "backoff" ELSE "waiting"

\* `while not stop_event.is_set():`
LoopCheckMutant(t) ==
    /\ threads[t].pc = "check"
    /\ threads' = [threads EXCEPT ![t].pc = "run"]
    /\ UNCHANGED <<now, stop_event, scheduler_thread, events, callerPc, joinUntil,
                   log, evalVars, storeVars>>
LoopCheck(t) ==
    /\ threads[t].pc = "check"
    /\ threads' = [threads EXCEPT ![t].pc = IF StopIsSet THEN "dead" ELSE "run"]
    /\ UNCHANGED <<now, stop_event, scheduler_thread, events, callerPc, joinUntil,
                   log, evalVars, storeVars>>

\* the try block up to the wait, or the except block up to the sleep
LoopRun(t) ==
    /\ threads[t].pc = "run"
    /\ LET r == CallEvaluateAllAlerts
           next == ExceptClause(IterationRaises(r))
       IN threads' = [threads EXCEPT ![t] =
                        [pc |-> next, wakeAt |-> now + interval,
                         waitEv |-> IF next = "waiting" THEN stop_event ELSE 0]]
    /\ UNCHANGED <<now, stop_event, scheduler_thread, events, callerPc, joinUntil,
                   log, evalVars, storeVars>>

\* stop_event.wait(self.interval) returns on timeout or when the event it
\* was called on is set; time.sleep(self.interval) returns on timeout only.
CanWake(t) ==
    \/ now >= threads[t].wakeAt
    \/ threads[t].pc = "waiting" /\ threads[t].waitEv # 0 /\ events[threads[t].waitEv]

LoopWake(t) ==
    /\ threads[t].pc \in {"waiting", "backoff"}
    /\ CanWake(t)
    /\ threads' = [threads EXCEPT ![t].pc = "check"]
    /\ UNCHANGED <<now, stop_event, scheduler_thread, events, callerPc, joinUntil,
                   log, evalVars, storeVars>>

\* BackgroundScheduler.start()
StartGuardMutant == scheduler_thread # 0 /\ ~IsAlive(scheduler_thread)
StartGuard == IsAlive(scheduler_thread)

StartMutant ==
    /\ callerPc = "idle"
    /\ IF StartGuard /\ ~StopIsSet
       THEN /\ log' = "already_running"
            /\ UNCHANGED <<stop_event, scheduler_thread, events, threads>>
       ELSE /\ Len(threads) < MaxStarts
            /\ log' = "starting"
            /\ events' = Append(events, FALSE)
            /\ stop_event' = Len(events) + 1
            /\ threads' = Append(threads, [pc |-> "check", wakeAt |-> 0, waitEv |-> 0])
            /\ scheduler_thread' = Len(threads) + 1
    /\ UNCHANGED <<now, callerPc, joinUntil, evalVars, storeVars>>
Start ==
    /\ callerPc = "idle"
    /\ IF StartGuard
       THEN /\ log' = "already_running"
            /\ UNCHANGED <<stop_event, scheduler_thread, events, threads>>
       ELSE /\ Len(threads) < MaxStarts
            /\ log' = "starting"
            /\ events' = Append(events, FALSE)
            /\ stop_event' = Len(events) + 1
            /\ threads' = Append(threads, [pc |-> "check", wakeAt |-> 0, waitEv |-> 0])
            /\ scheduler_thread' = Len(threads) + 1
    /\ UNCHANGED <<now, callerPc, joinUntil, evalVars, storeVars>>

\* `if scheduler_thread and scheduler_thread.is_alive():` of shutdown()
ShutdownGuardMutant == scheduler_thread # 0
ShutdownGuard == IsAlive(scheduler_thread)

\* BackgroundScheduler.shutdown() up to the join, or all of it when idle
ShutdownBegin ==
    /\ callerPc = "idle"
    /\ IF ShutdownGuard
       THEN IF stop_event = 0
            THEN /\ log' = "error"
                 /\ UNCHANGED <<events, callerPc, joinUntil>>
            ELSE /\ events' = [events EXCEPT ![stop_event] = TRUE]
                 /\ callerPc' = "joining"
                 /\ joinUntil' = now + JoinTimeout
                 /\ log' = "shutting_down"
       ELSE /\ log' = "not_running"
            /\ UNCHANGED <<events, callerPc, joinUntil>>
    /\ UNCHANGED <<now, stop_event, scheduler_thread, threads, evalVars, storeVars>>

\* scheduler_thread.join(timeout=5) returns; the is_alive() test after it
JoinReturnsMutant == TRUE
JoinReturns == ~IsAlive(scheduler_thread) \/ now >= joinUntil

ShutdownEnd ==
    /\ callerPc = "joining"
    /\ JoinReturns
    /\ callerPc' = "idle"
    /\ log' = IF IsAlive(scheduler_thread) THEN "did_not_stop" ELSE "stopped"
    /\ UNCHANGED <<now, stop_event, scheduler_thread, events, threads, joinUntil,
                   evalVars, storeVars>>

\* the passage of time: a step short of the interval by the grace period, or
\* a whole interval
Deltas == {interval - JoinTimeout, interval}

Tick ==
    /\ \E d \in Deltas : now + d <= MaxTime /\ now' = now + d
    /\ UNCHANGED <<schedVars, evalVars, storeVars>>


\* ================================================== recommendation_agent.py

DefaultGrowthPercent == 5       \* features.get('Follower_Growth_Rate', 0.05)
DefaultAvgEngagement == 3       \* features.get('Average_Engagement_Rate', 3.0)

\* RecommendationAgent._mock_rank_score; the growth rate is held in percent,
\* so growth_rate * 500 is 5 * percent.  Stored profiles carry the key
\* 'average_engagement_rate', not 'Average_Engagement_Rate', so the default
\* applies to the second term.
MockRankScore(features) ==
    LET growth == IF features.Follower_Growth_Rate = None
                  THEN DefaultGrowthPercent ELSE features.Follower_Growth_Rate
    IN (growth * 5) + (DefaultAvgEngagement * 10) + 40

\* np.clip(rank_score, 1, 100)
Clip(x, lo, hi) == IF x < lo THEN lo ELSE IF x > hi THEN hi ELSE x

\* RecommendationAgent.predict with no model artifact loaded (is_ready False)
Predict(features) ==
    LET rank_score == Clip(MockRankScore(features), 1, 100)
    IN [Market_Value_Score |-> rank_score,
        Market_Tier |-> IF rank_score >= 90 THEN "A-List Talent"
                        ELSE IF rank_score >= 70 THEN "High-Growth Asset"
                        ELSE "Scouting Target"]

\* growth_rate * 500 with a growth rate that is text or None, then `+`:
\* TypeError, in the mock branch of predict() and in its except handler
PredictRaises(features) == features.Follower_Growth_Rate = NotANumber

\* a Python list built element by element
List(f) == SubSeq(f, 1, Len(f))

\* ===================================================== firestore_service.py

\* FirestoreService.get_collection on the public collection: every stored
\* document, in store order, with data['id'] = doc.id (the document key,
\* here the position in the collection).
GetPublicCollectionMutant(coll) == List([i \in 1..Len(coll) |-> coll[i] @@ [id |-> i]])
GetPublicCollection(coll) == List([i \in 1..Len(coll) |-> [id |-> i] @@ coll[i]])

\* the same on the private 'user_alerts' collection of the service user
GetPrivateCollection(coll) == List([i \in 1..Len(coll) |-> [id |-> i] @@ coll[i]])

\* os.getenv('__app_id', 'default-influencersphere-app')
app_id == "default-influencersphere-app"

\* current_user_id = None; `not self.current_user_id` holds of "" as well
NoUser == ""

\* os.getenv('__initial_auth_token'): not set, or set
Tokens == {"", "token"}

\* _authenticate_mock_user: the user id of a token, the guest id without one
AuthenticateMockUser(token) ==
    IF token # ""
    THEN "fastapi-user-" \o app_id \o "-authenticated"
    ELSE "fastapi-guest-" \o app_id

\* the access context the path helpers read: self.app_id, self.current_user_id
Self == [app_id |-> app_id, current_user_id |-> current_user_id]

\* `if not self.current_user_id: raise Exception("Authentication required ...")`
PrivatePathRaisesMutant(self) == FALSE
PrivatePathRaises(self) == self.current_user_id = NoUser

\* f"artifacts/{self.app_id}/users/{self.current_user_id}/{collection_name}"
GetPrivateCollectionPath(self, collection_name) ==
    "artifacts/" \o self.app_id \o "/users/" \o self.current_user_id \o "/" \o collection_name

\* f"artifacts/{self.app_id}/public/data/{collection_name}"
GetPublicCollectionPathMutant(self, collection_name) ==
    "artifacts/" \o self.app_id \o "/public/" \o self.current_user_id \o "/" \o collection_name
GetPublicCollectionPath(self, collection_name) ==
    "artifacts/" \o self.app_id \o "/public/data/" \o collection_name

\* the first statement of each of the five operations
PathRaises(is_private) == is_private /\ PrivatePathRaises(Self)

ResolvePath(collection_name, is_private) ==
    IF is_private
    THEN GetPrivateCollectionPath(Self, collection_name)
    ELSE GetPublicCollectionPath(Self, collection_name)

\* the two collections the services use, and the documents behind each
INFLUENCER_COLLECTION == "influencers"
ALERT_COLLECTION == "user_alerts"

CollectionName(is_private) == IF is_private THEN ALERT_COLLECTION ELSE INFLUENCER_COLLECTION

Documents(is_private) == IF is_private THEN userAlerts ELSE publicPool

Listing(is_private) ==
    IF is_private THEN GetPrivateCollection(userAlerts) ELSE GetPublicCollection(publicPool)

Stored(is_private, docs) ==
    IF is_private
    THEN userAlerts' = docs /\ UNCHANGED publicPool
    ELSE publicPool' = docs /\ UNCHANGED userAlerts

\* the backing store behind the client calls: add appends a document under
\* the next key, set writes the document of a key, delete removes it
CollectionAdd(docs, data) == Append(docs, data)

DocumentSet(docs, doc_id, data, merge) ==
    IF doc_id \in DOMAIN docs
    THEN [docs EXCEPT ![doc_id] = IF merge THEN data @@ docs[doc_id] ELSE data]
    ELSE Append(docs, data)

DocumentDelete(docs, doc_id) ==
    IF doc_id \in DOMAIN docs
    THEN SubSeq(docs, 1, doc_id - 1) \o SubSeq(docs, doc_id + 1, Len(docs))
    ELSE docs

NoOp == [op |-> "none", by |-> "", is_private |-> FALSE, path |-> "", outcome |-> "none",
         touched |-> FALSE, result |-> <<>>]

\* the operation raised in the path helper, before self.db was used
Raised(op, by, is_private) ==
    [op |-> op, by |-> by, is_private |-> is_private, path |-> "",
     outcome |-> "unauthorized", touched |-> FALSE, result |-> <<>>]

\* the operation went through to the document or collection at the path
Done(op, by, is_private, result) ==
    [op |-> op, by |-> by, is_private |-> is_private,
     path |-> ResolvePath(CollectionName(is_private), is_private),
     outcome |-> "ok", touched |-> TRUE, result |-> result]

\* FirestoreService.get_document
GetDocumentCall(op, by, doc_id, is_private) ==
    /\ lastOp' = IF PathRaises(is_private) THEN Raised(op, by, is_private)
                  ELSE Done(op, by, is_private,
                            IF doc_id \in DOMAIN Documents(is_private)
                            THEN <<Listing(is_private)[doc_id]>> ELSE <<>>)
    /\ UNCHANGED <<publicPool, userAlerts>>

\* FirestoreService.get_collection
GetCollectionCall(op, by, is_private) ==
    /\ lastOp' = IF PathRaises(is_private) THEN Raised(op, by, is_private)
                  ELSE Done(op, by, is_private, Listing(is_private))
    /\ UNCHANGED <<publicPool, userAlerts>>

\* FirestoreService.add_document: returns the new document's id
AddDocumentCall(op, by, data, is_private) ==
    IF PathRaises(is_private)
    THEN lastOp' = Raised(op, by, is_private) /\ UNCHANGED <<publicPool, userAlerts>>
    ELSE /\ lastOp' = Done(op, by, is_private, <<Len(Documents(is_private)) + 1>>)
         /\ Stored(is_private, CollectionAdd(Documents(is_private), data))

\* FirestoreService.set_document
SetDocumentCall(op, by, doc_id, data, is_private, merge) ==
    IF PathRaises(is_private)
    THEN lastOp' = Raised(op, by, is_private) /\ UNCHANGED <<publicPool, userAlerts>>
    ELSE /\ lastOp' = Done(op, by, is_private, <<>>)
         /\ Stored(is_private, DocumentSet(Documents(is_private), doc_id, data, merge))

\* FirestoreService.delete_document
DeleteDocumentCall(op, by, doc_id, is_private) ==
    IF PathRaises(is_private)
    THEN lastOp' = Raised(op, by, is_private) /\ UNCHANGED <<publicPool, userAlerts>>
    ELSE /\ lastOp' = Done(op, by, is_private, <<>>)
         /\ Stored(is_private, DocumentDelete(Documents(is_private), doc_id))

\* ==================================================== influencer_service.py

\* query_params = {}
EmptyQuery == [niche |-> "", min_engagement_rate |-> None, min_followers |-> None,
               max_followers |-> None, limit |-> None]

\* the three filters of the loop body; `if x and ...` skips a filter whose
\* parameter is None, "" or 0
PassesFiltersMutant(profile, q) ==
    /\ ~(q.niche # "" /\ profile.niche_label # q.niche)
    /\ ~(q.min_engagement_rate # None /\ q.min_engagement_rate # 0
         /\ profile.average_engagement_rate < q.min_engagement_rate)
    /\ (IF q.min_followers = None THEN 0 ELSE q.min_followers) <= profile.follower_count
    /\ profile.follower_count <= (IF q.max_followers = None THEN 0 ELSE q.max_followers)
PassesFilters(profile, q) ==
    /\ ~(q.niche # "" /\ profile.niche_label # q.niche)
    /\ ~(q.min_engagement_rate # None /\ q.min_engagement_rate # 0
         /\ profile.average_engagement_rate < q.min_engagement_rate)
    /\ (IF q.min_followers = None THEN 0 ELSE q.min_followers) <= profile.follower_count
    /\ (q.max_followers = None \/ profile.follower_count <= q.max_followers)

\* profile['market_score'], profile['market_tier'] = predict(profile)
Augment(profile) ==
    [market_score |-> Predict(profile).Market_Value_Score,
     market_tier |-> Predict(profile).Market_Tier] @@ profile

\* the filter loop: the profiles that reach `filtered_results.append`
FilterProfiles(raw_results, q) == SelectSeq(raw_results, LAMBDA p : PassesFilters(p, q))

AugmentAll(kept) == List([i \in 1..Len(kept) |-> Augment(kept[i])])

Max(S) == CHOOSE x \in S : \A y \in S : y <= x

\* sorted(..., key=market_score, reverse=True): the elements with the highest
\* score first, in their original order (the sort is stable), then the rest
RECURSIVE SortDesc(_, _)
SortDesc(s, keys) ==
    IF keys = {} THEN <<>>
    ELSE SelectSeq(s, LAMBDA x : x.market_score = Max(keys))
         \o SortDesc(s, keys \ {Max(keys)})

SortByScoreDescMutant(s) ==
    SortDesc(List([i \in 1..Len(s) |-> s[Len(s) + 1 - i]]),
             {s[i].market_score : i \in 1..Len(s)})
SortByScoreDesc(s) == SortDesc(s, {s[i].market_score : i \in 1..Len(s)})

\* sorted_results[:limit]
Truncate(s, limit) == SubSeq(s, 1, IF limit < Len(s) THEN limit ELSE Len(s))

\* limit = query_params.get('limit', self.settings.DEFAULT_SEARCH_LIMIT)
SearchLimit(q) == IF q.limit = None THEN DEFAULT_SEARCH_LIMIT ELSE q.limit

\* InfluencerService.search_and_filter_influencers
SearchAndFilterInfluencers(coll, q) ==
    Truncate(SortByScoreDesc(AugmentAll(FilterProfiles(GetPublicCollection(coll), q))),
             SearchLimit(q))

\* ========================================================= alert_service.py

\* influencer_map = {p['id']: p for p in market_data}: one entry per id, at
\* the position of the id's first occurrence, holding its last occurrence
MapSlots(ids) ==
    SelectSeq([i \in DOMAIN ids |-> i],
              LAMBDA i : \A j \in 1..(i - 1) : ids[j] # ids[i])

MapBuild(market_data, ids, slots) ==
    List([n \in DOMAIN slots |->
            market_data[Max({j \in DOMAIN ids : ids[j] = ids[slots[n]]})]])

MapOf(market_data, ids) == MapBuild(market_data, ids, MapSlots(ids))

InfluencerMap(market_data) ==
    MapOf(market_data, List([i \in 1..Len(market_data) |-> market_data[i].id]))

\* `if not condition_type or not target_value: continue`
RuleSkipped(alert) ==
    \/ alert.condition_type = ""
    \/ alert.value = None \/ alert.value = 0

\* the body of the inner loop up to `if is_triggered:`
IsTriggeredMutant(alert, profile) ==
    \/ alert.condition_type = "min_engagement_rate"
       /\ profile.average_engagement_rate >= alert.value
    \/ alert.condition_type = "min_market_score"
       /\ profile.market_score >= alert.value
IsTriggered(alert, profile) ==
    /\ ~(alert.niche # "" /\ profile.niche_label # alert.niche)
    /\ \/ alert.condition_type = "min_engagement_rate"
          /\ profile.average_engagement_rate >= alert.value
       \/ alert.condition_type = "min_market_score"
          /\ profile.market_score >= alert.value

TriggeredAlert(alert, profile) ==
    [alert_id |-> alert.id, user_id |-> alert.user_id, profile_id |-> profile.id]

\* the inner loop: append on a match, then `break`
ScanProfilesMutant(alert, influencer_map) ==
    LET hits == SelectSeq(influencer_map, LAMBDA p : IsTriggered(alert, p))
    IN [i \in 1..Len(hits) |-> TriggeredAlert(alert, hits[i])]
ScanProfiles(alert, influencer_map) ==
    LET hits == SelectSeq(influencer_map, LAMBDA p : IsTriggered(alert, p))
    IN IF hits = <<>> THEN <<>> ELSE <<TriggeredAlert(alert, hits[1])>>

\* the outer loop `for alert in all_alerts:`
RECURSIVE EvaluateRules(_, _)
EvaluateRules(all_alerts, influencer_map) ==
    IF all_alerts = <<>> THEN <<>>
    ELSE LET alert == Head(all_alerts)
         IN (IF RuleSkipped(alert) THEN <<>> ELSE ScanProfiles(alert, influencer_map))
            \o EvaluateRules(Tail(all_alerts), influencer_map)

\* the skip-if-too-soon test of evaluate_all_alerts
TooSoonMutant(current_time) == (current_time - last_check_time) < 0
TooSoon(current_time) == (current_time - last_check_time) < interval

NoCall == [at |-> None, skipped |-> FALSE, reads |-> 0, candidates |-> {}, alerts |-> <<>>]

\* the part of evaluate_all_alerts after the gate, given what the two store
\* reads returned
RunCycle(current_time, influencer_map, all_alerts) ==
    /\ last_check_time' = current_time
    /\ scans' = Append(scans, current_time)
    /\ lastCall' = [at |-> current_time, skipped |-> FALSE, reads |-> 2,
                    candidates |-> {influencer_map[i].id : i \in DOMAIN influencer_map},
                    alerts |-> EvaluateRules(all_alerts, influencer_map)]

\* the same part when the listing of 'user_alerts' raises: the timestamp was
\* assigned before the reads, the pool was read, and the exception leaves the
\* method with no alert list
AbortCycle(current_time) ==
    /\ last_check_time' = current_time
    /\ lastCall' = [at |-> current_time, skipped |-> FALSE, reads |-> 1,
                    candidates |-> {}, alerts |-> <<>>]
    /\ UNCHANGED scans

\* AlertService.evaluate_all_alerts, executed (awaited) to completion
EvaluateAllAlerts ==
    IF TooSoon(now)
    THEN /\ lastCall' = [at |-> now, skipped |-> TRUE, reads |-> 0,
                         candidates |-> {}, alerts |-> <<>>]
         /\ UNCHANGED <<last_check_time, scans>>
    ELSE IF PathRaises(TRUE)
    THEN AbortCycle(now)
    ELSE RunCycle(now,
                  InfluencerMap(SearchAndFilterInfluencers(publicPool, EmptyQuery)),
                  GetPrivateCollection(userAlerts))

EvaluateAll ==
    /\ EvaluateAllAlerts
    /\ UNCHANGED <<now, schedVars, storeVars>>


\* ========================================================== specifications

\* AlertService.__init__: time.time() - ALERT_CHECK_INTERVAL_SECONDS - 60
InitialLastCheck(t) == t - interval - InitialSlack

SchedulerIdle ==
    /\ stop_event = 0
    /\ scheduler_thread = 0
    /\ events = <<>>
    /\ threads = <<>>
    /\ callerPc = "idle"
    /\ joinUntil = 0
    /\ log = "none"

EngineFresh ==
    /\ now = 0
    /\ last_check_time = InitialLastCheck(0)
    /\ scans = <<>>
    /\ lastCall = NoCall

\* FirestoreService.__init__ under the given environment token
Constructed(token) ==
    /\ initial_auth_token = token
    /\ current_user_id = AuthenticateMockUser(token)

NoSearch ==
    [via |-> "none", params |-> [q |-> <<>>, page |-> None] @@ EmptyQuery, status |-> "none",
     kept |-> {}, results |-> <<>>]

\* the services as constructed with no token in the environment, before any
\* request
ServicesFresh ==
    /\ Constructed("")
    /\ lastOp = NoOp
    /\ lastSearch = NoSearch

Profile(n, e, g) ==
    [niche_label |-> n, average_engagement_rate |-> e, follower_count |-> 1000,
     Follower_Growth_Rate |-> g]

Rule(c, v, n) == [user_id |-> "svc", condition_type |-> c, value |-> v, niche |-> n]

\* a rule the tenant has switched off: AlertRuleBase.is_active = False
Inactive(rule) == [is_active |-> FALSE] @@ rule

\* the module state after import and the module-level singletons' construction
Init ==
    /\ SchedulerIdle
    /\ EngineFresh
    /\ ServicesFresh
    /\ publicPool = <<Profile("A", 3, 0)>>
    /\ userAlerts = <<Rule("min_engagement_rate", 2, "")>>

Next ==
    \/ Tick
    \/ Start
    \/ ShutdownBegin
    \/ ShutdownEnd
    \/ \E t \in DOMAIN threads : LoopCheck(t)
    \/ \E t \in DOMAIN threads : LoopRun(t)
    \/ \E t \in DOMAIN threads : LoopWake(t)

\* the application as deployed: main.py's lifespan drives the scheduler
Spec == Init /\ [][Next]_vars

\* the engine on its own: evaluate_all_alerts() awaited at arbitrary times
NextEngine == Tick \/ EvaluateAll

\* a step of loop thread t, once it has been created
LoopStep(t) ==
    /\ t \in DOMAIN threads
    /\ (LoopCheck(t) \/ LoopRun(t) \/ LoopWake(t))

\* the interpreter schedules every loop thread that can take a step, and
\* time passes
Fairness ==
    /\ WF_vars(Tick)
    /\ \A t \in 1..MaxStarts : WF_vars(LoopStep(t))

SpecFair == Spec /\ Fairness

SpecEngine == Init /\ [][NextEngine]_vars

\* the application while the listing of the rules fails: get_collection on
\* the private collection raises
InitStoreDown ==
    /\ SchedulerIdle
    /\ EngineFresh
    /\ initial_auth_token = ""
    /\ current_user_id = NoUser
    /\ lastOp = NoOp
    /\ lastSearch = NoSearch
    /\ publicPool = <<Profile("A", 3, 0)>>
    /\ userAlerts = <<Rule("min_engagement_rate", 2, "")>>

SpecStoreDown == InitStoreDown /\ [][Next]_vars

\* the matching of one cycle over bounded stores
ProfileDomain == {Profile(n, e, g) : n \in {"A", "B"}, e \in {1, 3}, g \in {0, 12}}

Filler == Profile("B", 3, 12)

RuleDomain ==
    {Rule("min_engagement_rate", 2, ""), Rule("min_engagement_rate", 2, "A"),
     Rule("min_engagement_rate", 0, ""), Rule("min_engagement_rate", None, ""),
     Rule("min_market_score", 80, ""), Rule("", 2, "")}

SeqsUpTo(S, n) == UNION {[1..k -> S] : k \in 0..n}

InitEval ==
    /\ SchedulerIdle
    /\ EngineFresh
    /\ ServicesFresh
    /\ \E varied \in SeqsUpTo(ProfileDomain, MaxVaried), fill \in {0, MaxFill} :
          publicPool = varied \o [i \in 1..fill |-> Filler]
    /\ userAlerts \in SeqsUpTo(RuleDomain, MaxRules)

NextEval == EvaluateAll

SpecEval == InitEval /\ [][NextEval]_vars

\* the matching of one cycle over small pools, rates in tenths of a percent
\* (5.2 % is 52), so that the thresholds 3.0 and the rates 5.2 and 2.0 occur
MatchProfiles == {Profile(n, e, g) : n \in {"Fitness", "Gaming"}, e \in {20, 52}, g \in {0, 12}}

MatchRules ==
    {Rule(c, v, n) : c \in {"min_engagement_rate"}, v \in {30}, n \in {"", "Fitness"}}
    \cup {Rule(c, v, n) : c \in {"min_market_score"}, v \in {80}, n \in {"", "Fitness"}}
    \cup {Inactive(Rule("min_engagement_rate", 30, ""))}

InitMatch ==
    /\ SchedulerIdle
    /\ EngineFresh
    /\ ServicesFresh
    /\ publicPool \in SeqsUpTo(MatchProfiles, MaxVaried)
    /\ userAlerts \in SeqsUpTo(MatchRules, MaxRules)

NextMatch == EvaluateAll

SpecMatch == InitMatch /\ [][NextMatch]_vars

\* one cycle over pools on both sides of the search limit with rules on the
\* market score: the profiles score 70 (no growth) or 100 (growth of 12 %)
ScoreRules == {Rule("min_market_score", v, n) : v \in {60, 80}, n \in {"", "A"}}

InitScore ==
    /\ SchedulerIdle
    /\ EngineFresh
    /\ ServicesFresh
    /\ \E varied \in SeqsUpTo(ProfileDomain, MaxVaried), fill \in {0, MaxFill} :
          publicPool = varied \o [i \in 1..fill |-> Filler]
    /\ userAlerts \in SeqsUpTo(ScoreRules, MaxRules)

NextScore == EvaluateAll

SpecScore == InitScore /\ [][NextScore]_vars

\* ---- the scoped store and the alert rule wrappers over it

Tenants == {"A", "B"}

\* alert_data as a caller passes it to create_alert, update_data to update_alert
AlertInputs == {[condition_type |-> "min_engagement_rate", value |-> v, niche |-> ""] : v \in {2, 4}}

UpdateInputs == {[value |-> 4]}

\* alert_data['user_id'] = user_id; alert_data['created_at'] = time.time()
Stamped(alert_data, user_id) == [user_id |-> user_id, created_at |-> now] @@ alert_data

\* documents a caller of the store writes: rules under 'user_alerts', profiles
\* under 'influencers'
StoreRules == {Stamped(a, u) : a \in AlertInputs, u \in Tenants}

\* the second profile was written with an 'id' field of its own, which is not
\* the key it is stored under
StoreProfiles == {Profile("A", 3, 0), [id |-> 9] @@ Profile("B", 1, 12)}

Data(is_private) == IF is_private THEN StoreRules ELSE StoreProfiles

\* a write that makes a new document fits the bound on the collection
Fits(is_private, doc_id) ==
    \/ doc_id \in DOMAIN Documents(is_private)
    \/ doc_id = Len(Documents(is_private)) + 1 /\ doc_id <= MaxDocs

nonStoreVars == <<now, schedVars, evalVars, initial_auth_token, current_user_id, lastSearch>>

GetDocument ==
    /\ \E is_private \in BOOLEAN, doc_id \in 1..MaxDocs :
          GetDocumentCall("get_document", "", doc_id, is_private)
    /\ UNCHANGED nonStoreVars

GetCollection ==
    /\ \E is_private \in BOOLEAN : GetCollectionCall("get_collection", "", is_private)
    /\ UNCHANGED nonStoreVars

AddDocument ==
    /\ \E is_private \in BOOLEAN :
          /\ Len(Documents(is_private)) < MaxDocs
          /\ \E data \in Data(is_private) :
                AddDocumentCall("add_document", "", data, is_private)
    /\ UNCHANGED nonStoreVars

SetDocument ==
    /\ \E is_private \in BOOLEAN, doc_id \in 1..MaxDocs, merge \in BOOLEAN :
          /\ Fits(is_private, doc_id)
          /\ \E data \in Data(is_private) :
                SetDocumentCall("set_document", "", doc_id, data, is_private, merge)
    /\ UNCHANGED nonStoreVars

DeleteDocument ==
    /\ \E is_private \in BOOLEAN, doc_id \in 1..MaxDocs :
          DeleteDocumentCall("delete_document", "", doc_id, is_private)
    /\ UNCHANGED nonStoreVars

\* AlertService.create_alert
CreateAlert ==
    /\ Len(userAlerts) < MaxDocs
    /\ \E user_id \in Tenants \cup {""}, alert_data \in AlertInputs :
          IF user_id = ""
          THEN /\ lastOp' = [op |-> "create_alert", by |-> user_id, is_private |-> TRUE,
                             path |-> "", outcome |-> "value_error", touched |-> FALSE,
                             result |-> <<>>]
               /\ UNCHANGED <<publicPool, userAlerts>>
          ELSE AddDocumentCall("create_alert", user_id, Stamped(alert_data, user_id), TRUE)
    /\ UNCHANGED nonStoreVars

\* AlertService.get_alerts_by_user: `except Exception` turns a failure of the
\* store into an empty list
GetAlertsByUser ==
    /\ \E user_id \in Tenants :
          /\ lastOp' = IF PathRaises(TRUE)
                       THEN [Raised("get_alerts_by_user", user_id, TRUE) EXCEPT !.outcome = "ok"]
                       ELSE Done("get_alerts_by_user", user_id, TRUE, Listing(TRUE))
          /\ UNCHANGED <<publicPool, userAlerts>>
    /\ UNCHANGED nonStoreVars

\* AlertService.update_alert: set_document(..., merge=True)
UpdateAlert ==
    /\ \E alert_id \in 1..MaxDocs, update_data \in UpdateInputs, user_id \in Tenants :
          /\ Fits(TRUE, alert_id)
          /\ SetDocumentCall("update_alert", user_id, alert_id, update_data, TRUE, TRUE)
    /\ UNCHANGED nonStoreVars

\* AlertService.delete_alert
DeleteAlert ==
    /\ \E alert_id \in 1..MaxDocs, user_id \in Tenants :
          DeleteDocumentCall("delete_alert", user_id, alert_id, TRUE)
    /\ UNCHANGED nonStoreVars

EmptyStore ==
    /\ SchedulerIdle
    /\ EngineFresh
    /\ publicPool = <<>>
    /\ userAlerts = <<>>
    /\ lastOp = NoOp
    /\ lastSearch = NoSearch

\* the store service as constructed, with or without a token in the environment
InitStore ==
    /\ EmptyStore
    /\ \E token \in Tokens : Constructed(token)

NextStore == GetDocument \/ GetCollection \/ AddDocument \/ SetDocument \/ DeleteDocument

SpecStore == InitStore /\ [][NextStore]_vars

\* the alert rule wrappers called on behalf of the tenants
NextAlertStore == CreateAlert \/ GetAlertsByUser \/ UpdateAlert \/ DeleteAlert

SpecAlertStore == InitStore /\ [][NextAlertStore]_vars

\* the five operations as functions of the access context: current_user_id
\* ranges over Optional[str]
Identities == {NoUser} \cup {AuthenticateMockUser(token) : token \in Tokens} \cup Tenants

InitScope ==
    /\ SchedulerIdle
    /\ EngineFresh
    /\ publicPool = <<>>
    /\ userAlerts \in SeqsUpTo(StoreRules, 1)
    /\ lastOp = NoOp
    /\ lastSearch = NoSearch
    /\ initial_auth_token = ""
    /\ current_user_id \in Identities

SpecScope == InitScope /\ [][NextStore]_vars

\* the alert rule wrappers as functions of the access context
SpecAlertScope == InitScope /\ [][NextAlertStore]_vars

\* ---- the search of the public pool, called directly and through the route

\* text as the sequence of its characters
Ann == <<"A", "n", "n">>
Bob == <<"b", "o", "b">>

SearchProfile(n, e, f, g, u, b) ==
    [niche_label |-> n, average_engagement_rate |-> e, follower_count |-> f,
     Follower_Growth_Rate |-> g, username |-> u, bio_summary |-> b]

\* a document that also carries the fields the response schema requires
ApiShaped(p) ==
    [platform_id |-> "ig-1", engagement_rate |-> p.average_engagement_rate] @@ p

SearchProfiles ==
    {SearchProfile("A", 3, 5000, 12, Ann, <<>>),
     SearchProfile("A", 3, 100, NotANumber, Bob, <<>>),
     ApiShaped(SearchProfile("A", 3, 5000, 0, Ann, <<>>)),
     ApiShaped(SearchProfile("B", 1, 100, 12, Bob, <<>>)),
     ApiShaped(SearchProfile("A", 1, 100, 12, Bob, <<"A", "n">>))}

\* the values of the query parameters
Niches == {"", "A"}
Texts == {<<>>, <<"a", "N">>}
Rates == {2}
Followers == {1000}
Limits == {1, 2}
Pages == {1, 2}

\* query_params as a caller of the service builds it; None is a missing key
ServiceQueries ==
    [q : Texts, niche : Niches, min_engagement_rate : {None} \cup Rates,
     min_followers : {None} \cup Followers, max_followers : {None} \cup Followers,
     limit : {None} \cup Limits, page : {None}]

\* search_params of the route: min_engagement and min_followers default to 0,
\* 'max_followers' is never a key
SearchParams(q, niche, min_engagement, min_followers, page, limit) ==
    [q |-> q, niche |-> niche, min_engagement_rate |-> min_engagement,
     min_followers |-> min_followers, max_followers |-> None, limit |-> limit,
     page |-> page]

Ids(s) == {s[i].id : i \in DOMAIN s}

\* the loop reaches predict() with a profile it cannot score
SearchRaises(kept) == \E i \in DOMAIN kept : PredictRaises(kept[i])

\* search_and_filter_influencers with its failure: an exception of predict()
\* leaves the method
SearchOutcome(kept, query_params) ==
    IF SearchRaises(kept)
    THEN [status |-> "error", kept |-> {}, results |-> <<>>]
    ELSE [status |-> "ok", kept |-> Ids(kept),
          results |-> Truncate(SortByScoreDesc(AugmentAll(kept)), SearchLimit(query_params))]

Search(query_params) ==
    SearchOutcome(FilterProfiles(GetPublicCollection(publicPool), query_params), query_params)

\* all_results[start_index:start_index + limit]
Slice(s, start_index, stop) ==
    IF start_index >= Len(s) THEN <<>>
    ELSE SubSeq(s, start_index + 1, IF stop < Len(s) THEN stop ELSE Len(s))

\* SearchResult(results=...): every item must validate as InfluencerProfile,
\* which requires platform_id and engagement_rate besides the fields the
\* ingestion writes
ValidatesAsInfluencerProfile(doc) == {"platform_id", "engagement_rate"} \subseteq DOMAIN doc

\* the body of the route's try block; any exception becomes a 500 response
Paginate(found, page, limit) ==
    LET paginated_results == Slice(found.results, (page - 1) * limit, (page - 1) * limit + limit)
    IN IF found.status # "ok"
          \/ \E i \in DOMAIN paginated_results :
                ~ValidatesAsInfluencerProfile(paginated_results[i])
       THEN [status |-> "error_500", kept |-> found.kept, results |-> <<>>]
       ELSE [status |-> "ok", kept |-> found.kept, results |-> paginated_results]

searchRest == <<now, schedVars, evalVars, publicPool, userAlerts, accessVars>>

\* InfluencerService.search_and_filter_influencers, called directly
ServiceSearch ==
    /\ \E query_params \in ServiceQueries :
          lastSearch' = [via |-> "service", params |-> query_params] @@ Search(query_params)
    /\ UNCHANGED searchRest

\* GET /search/influencers with its six query parameters drawn from the
\* given sets
SearchInfluencersWithMutant(Qs, Ns, Es, Fs, Ps, Ls) ==
    /\ \E q \in Qs, niche \in Ns, min_engagement \in Es, min_followers \in Fs,
          page \in Ps, limit \in Ls :
          LET search_params == SearchParams(q, niche, min_engagement, min_followers, page, limit)
          IN lastSearch' = [via |-> "route", params |-> search_params]
                              @@ Paginate(Search(search_params), page, limit)
    /\ last_check_time' = now
    /\ UNCHANGED <<now, schedVars, scans, lastCall, publicPool, userAlerts, accessVars>>
SearchInfluencersWith(Qs, Ns, Es, Fs, Ps, Ls) ==
    /\ \E q \in Qs, niche \in Ns, min_engagement \in Es, min_followers \in Fs,
          page \in Ps, limit \in Ls :
          LET search_params == SearchParams(q, niche, min_engagement, min_followers, page, limit)
          IN lastSearch' = [via |-> "route", params |-> search_params]
                              @@ Paginate(Search(search_params), page, limit)
    /\ UNCHANGED searchRest

SearchInfluencers ==
    SearchInfluencersWith(Texts, Niches, {0} \cup Rates, {0} \cup Followers, Pages, Limits)

InitSearch ==
    /\ SchedulerIdle
    /\ EngineFresh
    /\ ServicesFresh
    /\ publicPool \in SeqsUpTo(SearchProfiles, MaxPool)
    /\ userAlerts = <<>>

NextSearch == ServiceSearch \/ SearchInfluencers

SpecSearch == InitSearch /\ [][NextSearch]_vars

\* ---- the scheduler loop next to a request-serving context

\* GET /search/influencers with no query parameter: the defaults of the route
DefaultSearch == SearchInfluencersWith({<<>>}, {""}, {0}, {0}, {1}, {DefaultPageSize})

NextContexts == Next \/ DefaultSearch

SpecContexts == Init /\ [][NextContexts]_vars


\* ================================================================== claims

Executed == lastCall.at # None /\ ~lastCall.skipped

\* C1: full scans of one engine are never closer together than the interval,
\* and an invocation made less than the interval after the last recorded
\* check reads nothing from the store and returns an empty result.
C1_ScansNeverCloserThanInterval ==
    /\ [](\A i, j \in DOMAIN scans : i < j => scans[j] - scans[i] >= interval)
    /\ [][(EvaluateAll /\ now - last_check_time < interval)
            => /\ lastCall'.reads = 0
               /\ lastCall'.alerts = <<>>
               /\ UNCHANGED <<scans, last_check_time>>]_vars

\* two scans have run and a later invocation, inside the interval, was skipped
C1_Witness ==
    /\ Len(scans) >= 2
    /\ lastCall.skipped
    /\ lastCall.at > scans[Len(scans)]
    /\ lastCall.at - scans[Len(scans)] < interval

\* C2: start() on an idle scheduler leaves exactly one live loop with a
\* fresh, unset stop signal; start() on a running scheduler creates no
\* thread and leaves the stop signal and both globals as they are.
C2_StartOnceOrNoOp ==
    [][Start =>
        /\ ~IsAlive(scheduler_thread)
             => /\ IsAlive(scheduler_thread)'
                /\ Cardinality(LiveThreads') = 1
                /\ ~StopIsSet'
        /\ IsAlive(scheduler_thread)
             => UNCHANGED <<threads, events, stop_event, scheduler_thread>>]_vars

\* start() was called on a running scheduler
C2_Witness ==
    /\ log = "already_running"
    /\ IsAlive(scheduler_thread)
    /\ Cardinality(LiveThreads) = 1

\* C3: shutdown() on a running scheduler raises the stop signal; when it
\* returns, either the loop thread has exited, or the grace period has run
\* out and the did-not-stop warning is printed; it never raises.
C3_ShutdownStopsOrWarns ==
    /\ [](log # "error")
    /\ [][(ShutdownBegin /\ IsAlive(scheduler_thread))
            => (StopIsSet' /\ callerPc' = "joining")]_vars
    /\ [][ShutdownEnd
            => /\ StopIsSet
               /\ \/ log' = "stopped" /\ ~IsAlive(scheduler_thread)
                  \/ /\ log' = "did_not_stop"
                     /\ IsAlive(scheduler_thread)
                     /\ now >= joinUntil]_vars

\* shutdown() returned through the warning path with the loop still asleep
C3_Witness ==
    /\ log = "did_not_stop"
    /\ callerPc = "idle"
    /\ IsAlive(scheduler_thread)
    /\ StopIsSet

\* C4: shutdown() on an idle scheduler changes nothing, raises no signal and
\* does not enter the join; a shutdown() after an earlier one (the signal is
\* already raised) changes no scheduler state either.
C4_ShutdownIdempotent ==
    [][ShutdownBegin =>
        /\ ~IsAlive(scheduler_thread)
             => /\ UNCHANGED <<stop_event, scheduler_thread, events, threads,
                               callerPc, joinUntil>>
                /\ log' = "not_running"
        /\ StopIsSet
             => UNCHANGED <<stop_event, scheduler_thread, events, threads>>]_vars

\* shutdown() was called on a scheduler that had already been stopped
C4_Witness ==
    /\ log = "not_running"
    /\ scheduler_thread # 0
    /\ StopIsSet
    /\ callerPc = "idle"

\* C5: every suspension of the loop is interruptible: with the stop signal
\* raised, a suspended loop can leave its wait at once.
C5_EveryWaitInterruptible ==
    \A t \in DOMAIN threads :
        (threads[t].pc \in {"waiting", "backoff"} /\ StopIsSet) => ENABLED LoopWake(t)

\* C6: a failure in an iteration is caught and followed by a backoff of one
\* interval, after which the loop tests the stop signal again; a loop thread
\* ends only by finding the stop signal set at the top of the loop.
C6_LoopSurvivesFailure ==
    [][\A t \in DOMAIN threads :
        /\ (threads[t].pc # "dead" /\ threads'[t].pc = "dead")
             => (threads[t].pc = "check" /\ StopIsSet)
        /\ (threads[t].pc = "run" /\ threads'[t].pc # "run"
            /\ IterationRaises(CallEvaluateAllAlerts))
             => (threads'[t].pc = "backoff" /\ threads'[t].wakeAt = now + interval)
        /\ (threads[t].pc = "backoff" /\ threads'[t].pc # "backoff")
             => (threads'[t].pc = "check" /\ now >= threads[t].wakeAt)]_vars

\* a loop is in its next iteration after a failed one and its backoff
C6_Witness ==
    \E t \in DOMAIN threads :
        /\ threads[t].pc = "run"
        /\ threads[t].wakeAt >= interval
        /\ now >= threads[t].wakeAt

\* C7: an iteration that starts at least one interval after the last
\* evaluation runs the scan and advances the last-check timestamp before the
\* loop suspends.
C7_DueIterationScans ==
    [][\A t \in DOMAIN threads :
        (/\ threads[t].pc = "run"
         /\ threads'[t].pc \in {"waiting", "backoff"}
         /\ now - last_check_time >= interval)
          => (last_check_time' = now /\ Len(scans') = Len(scans) + 1)]_vars

\* the rule's niche filter, when one is set, equals the profile's label
PassesNiche(rule, profile) == rule.niche = "" \/ profile.niche_label = rule.niche

AlertsOf(r) == {k \in DOMAIN lastCall.alerts : lastCall.alerts[k].alert_id = r}

\* C8: in a cycle that is not skipped, a min_engagement_rate rule with
\* threshold T yields exactly one alert if some profile of the public pool
\* passes its niche filter with engagement rate >= T, and none otherwise.
C8_EngagementRuleTriggersIff ==
    Executed =>
        \A r \in DOMAIN userAlerts :
            (userAlerts[r].condition_type = "min_engagement_rate" /\ userAlerts[r].value # None)
              => Cardinality(AlertsOf(r)) =
                   IF \E i \in DOMAIN publicPool :
                        /\ PassesNiche(userAlerts[r], publicPool[i])
                        /\ publicPool[i].average_engagement_rate >= userAlerts[r].value
                   THEN 1 ELSE 0

\* C9: the alerts of one cycle carry pairwise distinct rule ids, so they are
\* no more than the rules.
C9_AtMostOneAlertPerRule ==
    /\ \A k, l \in DOMAIN lastCall.alerts :
          k # l => lastCall.alerts[k].alert_id # lastCall.alerts[l].alert_id
    /\ Len(lastCall.alerts) <= Len(userAlerts)

\* a cycle in which every rule fired once and one of them had several
\* qualifying candidates
C9_Witness ==
    /\ Executed
    /\ Len(userAlerts) = 2
    /\ Len(lastCall.alerts) = 2
    /\ \E r \in DOMAIN userAlerts :
          /\ userAlerts[r].condition_type = "min_engagement_rate"
          /\ Cardinality({i \in lastCall.candidates :
                            /\ PassesNiche(userAlerts[r], publicPool[i])
                            /\ publicPool[i].average_engagement_rate >= userAlerts[r].value}) >= 2

\* C10: in a cycle that is not skipped, every profile stored in the public
\* collection is a candidate of the matching.
C10_WholePoolIsCandidate ==
    Executed => lastCall.candidates = DOMAIN publicPool


\* the profile an alert refers to meets the condition of the alert's rule
MeetsThreshold(rule, profile) ==
    \/ rule.condition_type = "min_engagement_rate"
       /\ profile.average_engagement_rate >= rule.value
    \/ rule.condition_type = "min_market_score"
       /\ Predict(profile).Market_Value_Score >= rule.value

\* the pool holds profiles a (Fitness, 5.2) and b (Fitness, 2.0), in either
\* order and with any scores, and the one rule is min_engagement_rate >= 3.0
\* on Fitness
ScenarioAB ==
    /\ Len(publicPool) = 2
    /\ \A i \in 1..2 : publicPool[i].niche_label = "Fitness"
    /\ {publicPool[i].average_engagement_rate : i \in 1..2} = {52, 20}
    /\ userAlerts = <<Rule("min_engagement_rate", 30, "Fitness")>>

\* C11: the profile a TriggeredAlert refers to passes the niche filter of the
\* rule that produced it and meets its threshold; in the scenario of profiles
\* a (Fitness, 5.2) and b (Fitness, 2.0) with the rule min_engagement_rate >=
\* 3.0 on Fitness, the cycle returns exactly one alert and it refers to a.
C11_MatchedProfileSatisfiesRule ==
    Executed =>
        /\ \A k \in DOMAIN lastCall.alerts :
              LET rule == userAlerts[lastCall.alerts[k].alert_id]
                  profile == publicPool[lastCall.alerts[k].profile_id]
              IN /\ PassesNiche(rule, profile)
                 /\ MeetsThreshold(rule, profile)
        /\ ScenarioAB =>
              /\ Len(lastCall.alerts) = 1
              /\ publicPool[lastCall.alerts[1].profile_id].average_engagement_rate = 52

\* the scenario has been evaluated with b stored before a
C11_Witness ==
    /\ Executed
    /\ ScenarioAB
    /\ publicPool[1].average_engagement_rate = 20
    /\ Len(lastCall.alerts) = 1
    /\ lastCall.alerts[1].profile_id = 2


\* C12: through the alert rule wrappers, a rule is never visible outside its
\* owning tenant's private path: a listing made for one tenant returns no
\* rule created for another, and a rule created for a tenant is stored at
\* that tenant's private path.
C12_RulesStayInOwnersPartition ==
    /\ (lastOp.op = "get_alerts_by_user" /\ lastOp.outcome = "ok") =>
          \A k \in DOMAIN lastOp.result :
              "user_id" \in DOMAIN lastOp.result[k] => lastOp.result[k].user_id = lastOp.by
    /\ (lastOp.op = "create_alert" /\ lastOp.outcome = "ok") =>
          lastOp.path = GetPrivateCollectionPath([app_id |-> app_id, current_user_id |-> lastOp.by],
                                                 ALERT_COLLECTION)


StoreOps == {"get_document", "get_collection", "set_document", "add_document", "delete_document"}

\* C13: with no tenant identity bound, each of the five store operations
\* called with private scope fails as unauthorized before any document is
\* read or written; called with public scope it succeeds whatever the
\* identity is.
C13_PrivateNeedsIdentityPublicDoesNot ==
    /\ [](lastOp.op \in StoreOps =>
            /\ (lastOp.is_private /\ current_user_id = NoUser) =>
                  (lastOp.outcome = "unauthorized" /\ ~lastOp.touched)
            /\ ~lastOp.is_private => (lastOp.outcome = "ok" /\ lastOp.touched))
    /\ [][(current_user_id = NoUser /\ lastOp'.op \in StoreOps /\ lastOp'.is_private)
             => UNCHANGED <<publicPool, userAlerts>>]_vars

\* a private delete was refused with no identity bound while the private
\* collection holds a document
C13_Witness ==
    /\ current_user_id = NoUser
    /\ lastOp.op = "delete_document"
    /\ lastOp.is_private
    /\ lastOp.outcome = "unauthorized"
    /\ userAlerts # <<>>

Context(u) == [app_id |-> app_id, current_user_id |-> u]

\* C14: the public path of a collection is the same under every tenant
\* identity, none bound included, and it is the path a public operation
\* uses; the private paths of two distinct tenants for the same collection
\* differ.
C14_PublicPathIgnoresTenant ==
    /\ \A u \in Identities, c \in {INFLUENCER_COLLECTION, ALERT_COLLECTION} :
          GetPublicCollectionPath(Context(u), c) = GetPublicCollectionPath(Self, c)
    /\ (lastOp.op \in StoreOps /\ ~lastOp.is_private) =>
          lastOp.path = GetPublicCollectionPath(Context(NoUser), INFLUENCER_COLLECTION)
    /\ \A u \in Identities \ {NoUser}, c \in {INFLUENCER_COLLECTION, ALERT_COLLECTION} :
          (current_user_id # NoUser /\ u # current_user_id) =>
              GetPrivateCollectionPath(Context(u), c) # GetPrivateCollectionPath(Self, c)

\* a public listing went through with no identity bound
C14_Witness ==
    /\ current_user_id = NoUser
    /\ lastOp.op = "get_collection"
    /\ ~lastOp.is_private
    /\ lastOp.outcome = "ok"
    /\ lastOp.path = GetPublicCollectionPath(Context("A"), INFLUENCER_COLLECTION)

\* C15: a store service set up without an authentication credential refuses
\* every private operation instead of going on under a substituted (guest or
\* default) identity.
C15_NoCredentialNoPrivateAccess ==
    (initial_auth_token = "" /\ lastOp.op \in StoreOps /\ lastOp.is_private) =>
        (lastOp.outcome = "unauthorized" /\ ~lastOp.touched)


\* ---- search

LowerChar(c) == CASE c = "A" -> "a" [] c = "N" -> "n" [] c = "B" -> "b" [] OTHER -> c

Lower(s) == [i \in 1..Len(s) |-> LowerChar(s[i])]

Contains(hay, needle) ==
    \E i \in 0..(Len(hay) - Len(needle)) :
        \A k \in 1..Len(needle) : hay[i + k] = needle[k]

\* case-insensitive substring match over username and bio
TextMatches(q, doc) ==
    \/ Contains(Lower(doc.username), Lower(q))
    \/ Contains(Lower(doc.bio_summary), Lower(q))

\* the four predicates on the profile's label and numbers
SatisfiesMetrics(doc, p) ==
    /\ p.niche # "" => doc.niche_label = p.niche
    /\ p.min_engagement_rate # None => doc.average_engagement_rate >= p.min_engagement_rate
    /\ p.min_followers # None => doc.follower_count >= p.min_followers
    /\ p.max_followers # None => doc.follower_count <= p.max_followers

\* C16: a search returns only profiles that satisfy every supplied predicate:
\* niche equality, minimum engagement rate, minimum and maximum follower
\* count, and the case-insensitive free-text match over username and bio.
C16_ResultsSatisfyEveryPredicate ==
    lastSearch.status = "ok" =>
        \A k \in DOMAIN lastSearch.results :
            /\ SatisfiesMetrics(lastSearch.results[k], lastSearch.params)
            /\ lastSearch.params.q # <<>> =>
                  TextMatches(lastSearch.params.q, lastSearch.results[k])

\* the parameter sets obtained by removing one predicate
Relaxations(p) ==
    {[p EXCEPT !.niche = ""], [p EXCEPT !.min_engagement_rate = None],
     [p EXCEPT !.min_followers = None], [p EXCEPT !.max_followers = None],
     [p EXCEPT !.q = <<>>]}

Candidates(p) == Ids(FilterProfiles(GetPublicCollection(publicPool), p))

\* C17: filtering is monotone: the profiles a search retains before scoring
\* are among those retained under any parameter set with one predicate
\* removed.
C17_FilteringIsMonotone ==
    lastSearch.status = "ok" =>
        \A relaxed \in Relaxations(lastSearch.params) : lastSearch.kept \subseteq Candidates(relaxed)

\* a search with a follower ceiling kept one profile of two, and without the
\* ceiling both are candidates
C17_Witness ==
    /\ lastSearch.status = "ok"
    /\ lastSearch.params.max_followers # None
    /\ Cardinality(lastSearch.kept) = 1
    /\ Cardinality(Candidates([lastSearch.params EXCEPT !.max_followers = None])) = 2

\* C18: the results are in descending order of score, and profiles of equal
\* score are in the order the store listed them.
C18_SortedDescendingAndStable ==
    lastSearch.status = "ok" =>
        \A i, j \in DOMAIN lastSearch.results :
            i < j =>
               \/ lastSearch.results[i].market_score > lastSearch.results[j].market_score
               \/ /\ lastSearch.results[i].market_score = lastSearch.results[j].market_score
                  /\ lastSearch.results[i].id < lastSearch.results[j].id

\* two different profiles of equal score were returned in store order
C18_Witness ==
    /\ lastSearch.status = "ok"
    /\ Len(lastSearch.results) = 2
    /\ lastSearch.results[1].market_score = lastSearch.results[2].market_score
    /\ lastSearch.results[1].username # lastSearch.results[2].username
    /\ lastSearch.results[1].id = 1

\* the unpaginated full sorted listing of a parameter set
FullListing(p) == SortByScoreDesc(AugmentAll(FilterProfiles(GetPublicCollection(publicPool), p)))

\* C19: a page holds at most pageSize items, and item k of page p is the item
\* at offset (p-1)*pageSize + k of the unpaginated full sorted listing, so
\* page 2 is not empty when more than pageSize profiles match.
C19_PageIsWindowOfFullListing ==
    (lastSearch.via = "route" /\ lastSearch.status = "ok") =>
        LET page == lastSearch.params.page
            limit == lastSearch.params.limit
            full == FullListing(lastSearch.params)
        IN /\ Len(lastSearch.results) <= limit
           /\ \A k \in 1..limit :
                 (page - 1) * limit + k <= Len(full) =>
                     /\ k <= Len(lastSearch.results)
                     /\ lastSearch.results[k] = full[(page - 1) * limit + k]

\* C20: a record whose scoring fails is left out and the search goes on: the
\* failure is not raised and every other record that passed the filters is
\* scored, sorted and returned.
C20_ScoringFailureSkipsRecord ==
    LET passing == FilterProfiles(GetPublicCollection(publicPool), lastSearch.params)
        scorable == SelectSeq(passing, LAMBDA p : ~PredictRaises(p))
    IN (lastSearch.via # "none" /\ passing # scorable) =>
          /\ lastSearch.status = "ok"
          /\ lastSearch.via = "service" =>
                lastSearch.results =
                    Truncate(SortByScoreDesc(AugmentAll(scorable)), SearchLimit(lastSearch.params))


\* ---- the timestamp, the rule listing, record ids

\* C21: the last-evaluation timestamp is written only from within the
\* scheduler's loop context: no step of a request-serving context, and no
\* step of start() or shutdown(), changes it.
C21_TimestampWrittenOnlyByLoop ==
    [][last_check_time' # last_check_time => \E t \in DOMAIN threads : LoopRun(t)]_vars

\* a search request was served while a loop thread was between iterations,
\* and the timestamp is the one the engine was constructed with
C21_Witness ==
    /\ lastSearch.via = "route"
    /\ \E t \in DOMAIN threads : threads[t].pc = "backoff"
    /\ now > 0
    /\ last_check_time = InitialLastCheck(0)

\* C22: when the store fails while a tenant's alert rules are listed, the
\* listing reports a failure: it does not come back as a success with an
\* empty or partial list.
C22_ListingFailurePropagates ==
    (lastOp.op = "get_alerts_by_user" /\ ~lastOp.touched) => lastOp.outcome # "ok"

\* C23: every record returned by get and by list carries an id equal to the
\* key its document is stored under, also when the stored data holds an id
\* field of its own with another value.
C23_ReturnedIdIsDocumentKey ==
    /\ []((lastOp.op = "get_collection" /\ lastOp.outcome = "ok") =>
            \A k \in DOMAIN lastOp.result : lastOp.result[k].id = k)
    /\ [][(lastOp'.op = "get_document" /\ lastOp'.result # <<>>) =>
             \A is_private \in BOOLEAN, doc_id \in 1..MaxDocs :
                 GetDocumentCall("get_document", "", doc_id, is_private)
                    => lastOp'.result[1].id = doc_id]_vars

\* a get returned a public document whose stored data holds another id
C23_Witness ==
    /\ lastOp.op = "get_document"
    /\ ~lastOp.is_private
    /\ lastOp.result # <<>>
    /\ lastOp.result[1].id \in DOMAIN publicPool
    /\ "id" \in DOMAIN publicPool[lastOp.result[1].id]
    /\ publicPool[lastOp.result[1].id].id # lastOp.result[1].id

\* ---- which rules a cycle evaluates

\* C24: a rule whose active flag is false produces no TriggeredAlert in any
\* evaluation cycle, whatever profiles are in the pool.
C24_InactiveRuleNeverTriggers ==
    \A k \in DOMAIN lastCall.alerts :
        LET rule == userAlerts[lastCall.alerts[k].alert_id]
        IN "is_active" \in DOMAIN rule => rule.is_active

\* C25: in a cycle that is not skipped, a rule is matched against the
\* candidate profiles exactly when its condition type and its threshold are
\* both present, a threshold of 0 included: such a rule yields its alert iff
\* a candidate qualifies, and a rule missing either field yields none, the
\* alerts of the other rules being what they are without it.
C25_EvaluatedIffBothFieldsPresent ==
    Executed =>
        \A r \in DOMAIN userAlerts :
            LET rule == userAlerts[r]
                present == rule.condition_type # "" /\ rule.value # None
                qualifies == \E i \in lastCall.candidates :
                                /\ PassesNiche(rule, publicPool[i])
                                /\ MeetsThreshold(rule, publicPool[i])
            IN Cardinality(AlertsOf(r)) = IF present /\ qualifies THEN 1 ELSE 0

\* C26: in a cycle that is not skipped, a min_market_score rule with
\* threshold T yields its alert exactly when some profile of the public pool
\* passes the rule's niche filter with a score >= T, the score being the one
\* the scoring agent yields for the profile, which is the one the search
\* attaches to it.
C26_MarketScoreRuleTriggersIff ==
    Executed =>
        /\ \A r \in DOMAIN userAlerts :
              (userAlerts[r].condition_type = "min_market_score" /\ userAlerts[r].value # None)
                => Cardinality(AlertsOf(r)) =
                     IF \E i \in DOMAIN publicPool :
                          /\ PassesNiche(userAlerts[r], publicPool[i])
                          /\ Predict(publicPool[i]).Market_Value_Score >= userAlerts[r].value
                     THEN 1 ELSE 0
        /\ LET found == SearchAndFilterInfluencers(publicPool, EmptyQuery)
           IN \A k \in DOMAIN found :
                 found[k].market_score = Predict(publicPool[found[k].id]).Market_Value_Score

\* ---- the loop and its stop signal

\* C27: an iteration of the loop during which the listing of the rules fails
\* runs the cycle up to the failure and no further (no alerts), ends in the
\* backoff of one interval as a caught failure, and the iteration after the
\* backoff attempts the cycle again instead of being skipped as too soon.
C27_StoreFailureAbortsAndIsRetried ==
    [][\A t \in DOMAIN threads :
        (threads[t].pc = "run" /\ threads'[t].pc # "run" /\ PathRaises(TRUE))
          => /\ threads'[t].pc = "backoff"
             /\ lastCall'.at = now
             /\ ~lastCall'.skipped
             /\ lastCall'.reads = 1
             /\ lastCall'.alerts = <<>>]_vars

StopRaisedFor(t) ==
    /\ t \in DOMAIN threads
    /\ t = scheduler_thread
    /\ threads[t].pc # "dead"
    /\ StopIsSet

Exited(t) == t \in DOMAIN threads /\ threads[t].pc = "dead"

\* the end of thread t's suspension lies within the checked time span,
\* whichever steps the clock takes
WithinHorizon(t) == threads[t].wakeAt + interval <= MaxTime

\* C29: under fair scheduling of the loop threads, a loop whose stop signal
\* has been raised eventually exits: from the test of the signal it exits,
\* from the middle of an iteration it reaches the end of the iteration, and
\* from the suspension that follows an iteration it wakes and exits.
C29_StoppedLoopExits ==
    \A t \in 1..MaxStarts :
        /\ (StopRaisedFor(t) /\ threads[t].pc = "check") ~> Exited(t)
        /\ (StopRaisedFor(t) /\ threads[t].pc = "run")
             ~> (StopRaisedFor(t) /\ threads[t].pc \in {"waiting", "backoff"})
        /\ (StopRaisedFor(t) /\ threads[t].pc \in {"waiting", "backoff"} /\ WithinHorizon(t))
             ~> Exited(t)

\* a loop has exited whose stop signal was raised during its backoff and
\* whose last shutdown() had given up waiting for it
C29_Witness ==
    \E t \in DOMAIN threads :
        /\ threads[t].pc = "dead"
        /\ threads[t].wakeAt >= interval
        /\ log = "did_not_stop"

\* C30: a start() that follows a shutdown() which has returned, through the
\* stopped path or through the grace-period warning path, leaves the
\* scheduler with a live loop whose stop signal is not raised.
C30_StartAfterShutdownResumes ==
    [][(Start /\ log \in {"stopped", "did_not_stop"})
         => (IsAlive(scheduler_thread)' /\ ~StopIsSet')]_vars

====
